---- MODULE Spec2Model ----
(***************************************************************************)
(* A model of the OSCAR metadata pipeline (pipelines/oscarmeta/pipeline.rs) *)
(* and of the rebuild journal (pipelines/oscardoc/types/rebuild.rs).        *)
(*                                                                         *)
(* The module holds several specifications over one set of variables:      *)
(*   SpecRecord  process_record, with its sentence-level workers           *)
(*   Spec        run: shard workers, record workers, per-language writes   *)
(*   SpecE2E     run on the single two-record shard of the end-to-end case *)
(*   SpecDst     RebuildWriters::with_dst against a destination            *)
(*   SpecMerge   the merge of one document into pieces                     *)
(*   SpecSer     RebuildWriter::append_ser / flush / read back             *)
(*   SpecBuild   RebuildInformation::new / into_raw_parts, ShardResult::new *)
(*   SpecLive    run, with the workers' steps scheduled fairly              *)
(* A specification leaves the variables of the others at their idle value. *)
(***************************************************************************)
EXTENDS Integers, Sequences, FiniteSets, TLC

VARIABLES
    \* ---- process_record (one record, sentence-level workers)
    rbody,      \* the record handed to process_record
    rpc,        \* "start" | "par" | "done" | "idle"
    rpos,       \* lines of the body already taken from the filtered iterator
    rheld,      \* per sentence worker: the line it is classifying, or NoLine
    rlocal,     \* per sentence worker: the pairs it has produced, in pull order
    rresult,    \* the value process_record returned (None or the pair list)
    \* ---- run (shard workers, record workers, per-language write tasks)
    shards,         \* the shards of the source directory, by index
    spc,            \* per shard worker: "start" | "records" | "write" | "done" | "failed" | "panicked"
    todo,           \* per shard: records not yet through process_record
    shard_results,  \* per shard: what the record-level collect() has gathered
    lang_pieces,    \* per shard: the merged pieces of each language
    wst,            \* per shard and language: the write task, "none" | "ready" | "locked" | "done" | "panicked"
    wnext,          \* per shard and language: pieces of the batch already written
    wstart,         \* per shard and language: the offset the write read, or -1
    lock,           \* per language: the shard holding the writer's mutex, or 0
    poisoned,       \* per language: the mutex was held by a task that panicked
    counter,        \* per language: the writer's line counter
    content,        \* per language: the lines of the content file
    meta,           \* per language: the provenance entries recorded, in write order
    errors,         \* the shard errors collected by run
    run_pc,         \* "running" | "returned" | "panicked" | "idle"
    io_failures,    \* write errors injected so far
    acquired,       \* per language: the shards whose task took the mutex, in order
    \* ---- RebuildWriters::with_dst
    dst0,       \* what the destination was when with_dst was called
    dkind,      \* what the destination is now: "absent" | "file" | "dir"
    dentries,   \* the names the destination directory holds
    dpc,        \* "exists" | "isfile" | "readdir" | "writers" | "done" | "idle"
    dlog,       \* the error! messages logged
    dwriters,   \* the languages that have a writer in the map being built
    dresult,    \* "none" | "Ok" | "Err"
    dioerr,     \* the file-system calls of with_dst that returned an error
    \* ---- the merge of one document
    minput,     \* the (sentence, language) pairs of the record
    mdoc,       \* the Document built from them
    mpos,       \* sentences of the document already merged
    mpieces,    \* the pieces made so far
    mpc,        \* "new" | "merge" | "done" | "idle"
    \* ---- RebuildWriter over a buffer
    sval,       \* the ShardResult put through the journal
    sunder,     \* what the underlying writer has received: header, blocks
    sbuffer,    \* the writer's buffer of encoded values
    snum,       \* the values in the buffer
    shdr,       \* the header has been written
    sres,       \* what append_ser returned: "none" | "Ok" | "Err"
    sread,      \* what reading the journal back gave
    serpc,      \* "new" | "appended" | "flushed" | "read" | "idle"
    \* ---- RebuildInformation and ShardResult built from their parts
    bshard,     \* the shard id handed to ShardResult::new
    blocs,      \* the locations handed over
    bmetas,     \* the metadata handed over
    binfo,      \* the RebuildInformation made of the first location and metadata
    bparts,     \* what into_raw_parts gave for it
    bsr,        \* the ShardResult made of the two lists
    bpc         \* "start" | "info" | "parts" | "result" | "idle"

rvars == <<rbody, rpc, rpos, rheld, rlocal, rresult>>

pvars == <<shards, spc, todo, shard_results, lang_pieces, wst, wnext, wstart,
           lock, poisoned, counter, content, meta, errors, run_pc, io_failures,
           acquired>>

dvars == <<dst0, dkind, dentries, dpc, dlog, dwriters, dresult, dioerr>>

mvars == <<minput, mdoc, mpos, mpieces, mpc>>

svars == <<sval, sunder, sbuffer, snum, shdr, sres, sread, serpc>>

bvars == <<bshard, blocs, bmetas, binfo, bparts, bsr, bpc>>

\* What the actions of one specification leave alone: the others' variables
notR == <<pvars, dvars, mvars, svars, bvars>>
notP == <<rvars, dvars, mvars, svars, bvars>>
notD == <<rvars, pvars, mvars, svars, bvars>>
notM == <<rvars, pvars, dvars, svars, bvars>>
notS == <<rvars, pvars, dvars, mvars, bvars>>
notB == <<rvars, pvars, dvars, mvars, svars>>

vars == <<rbody, rpc, rpos, rheld, rlocal, rresult,
          shards, spc, todo, shard_results, lang_pieces, wst, wnext, wstart,
          lock, poisoned, counter, content, meta, errors, run_pc, io_failures,
          acquired,
          dst0, dkind, dentries, dpc, dlog, dwriters, dresult, dioerr,
          minput, mdoc, mpos, mpieces, mpc,
          sval, sunder, sbuffer, snum, shdr, sres, sread, serpc,
          bshard, blocs, bmetas, binfo, bparts, bsr, bpc>>

(***************************************************************************)
(* Bounds of the model.                                                    *)
(***************************************************************************)
MaxLines == 3       \* lines in a record body
SentWorkers == 2    \* threads the sentence-level par_bridge runs on
NumShards == 2      \* shards in the source directory
MaxSentences == 4   \* pairs in the document handed to the merge
MaxInfos == 1       \* entries in the rebuild_info of a ShardResult
MaxIoFailures == 1  \* write errors the file system may return during one run
MaxPairs == 2       \* locations, and metadata, handed to ShardResult::new

(***************************************************************************)
(* Values.                                                                 *)
(***************************************************************************)
None == "None"
NoLine == [text |-> 0, chars |-> 0, pred |-> "none"]

\* crate::lang::LANG, the static supported-language table
LANG == {"en", "fr"}

\* .filter(|line| line.chars().count() > 100)
MinChars == 100

\* What cls.predict gives for a line: Err, Ok(None), or Ok(Some([label])).
\* "xx" is a label FastText knows and LANG does not hold.
Preds == {"err", "none", "en", "fr", "xx"}

\* The lines a body is made of: its character count and what the classifier
\* says of it. The text of a line is its place in the body.
LineKinds ==
    {[chars |-> MinChars + 1, pred |-> p] : p \in Preds}
        \cup {[chars |-> MinChars, pred |-> "en"]}

RECURSIVE SeqsUpTo(_, _)
SeqsUpTo(S, n) ==
    IF n = 0 THEN {<< >>}
    ELSE LET shorter == SeqsUpTo(S, n - 1)
         IN  shorter \cup {Append(q, x) : q \in {t \in shorter : Len(t) = n - 1}, x \in S}

MkLines(kinds) ==
    [i \in DOMAIN kinds |-> [text |-> i, chars |-> kinds[i].chars, pred |-> kinds[i].pred]]

\* A record: what the archive iterator yielded (Ok or Err), whether its body is
\* valid UTF-8, and the lines of the body.
MkRecord(kind, utf8, lines) == [kind |-> kind, utf8 |-> utf8, lines |-> lines]

RecordInputs ==
    {MkRecord("ok", TRUE, MkLines(k)) : k \in SeqsUpTo(LineKinds, MaxLines)}
        \cup {MkRecord("ok", FALSE, << >>)}

NoRecord == MkRecord("none", FALSE, << >>)

(***************************************************************************)
(* identify_sentence and the filter of process_record.                     *)
(***************************************************************************)
\* cls.predict(sentence): the classifier is a function of the text
Predict(line) == line.pred

\* LANG.get(label): the language of the table, or None
LangGet(label) == IF label \in LANG THEN label ELSE None

\* identify_sentence with a language of its own for a failed prediction
IdentifySentenceFallback(line) ==
    IF Predict(line) = "err" THEN <<line.text, "en">>
    ELSE IF LangGet(Predict(line)) # None /\ Predict(line) # "none"
         THEN <<line.text, LangGet(Predict(line))>>
         ELSE None

\* cls.predict(sentence).ok(), then if let Some(Some(lang)): an Err and an
\* Ok(None) both go to the else branch
IdentifySentence(line) ==
    LET prediction == Predict(line)
    IN  IF prediction \notin {"err", "none"}
        THEN IF LangGet(prediction) # None
             THEN <<line.text, LangGet(prediction)>>
             ELSE None
        ELSE None

LongEnoughOrEqual(line) == line.chars >= MinChars
LongEnough(line) == line.chars > MinChars

\* sentences.lines().filter(..): the lines the bridged iterator yields
Kept(lines) == SelectSeq(lines, LongEnough)

\* filter_map(identify_sentence) over the lines one worker pulled
RECURSIVE FilterMapIdentify(_)
FilterMapIdentify(ls) ==
    IF ls = << >> THEN << >>
    ELSE LET r == IdentifySentence(Head(ls))
         IN  (IF r = None THEN << >> ELSE <<r>>) \o FilterMapIdentify(Tail(ls))

\* collect() of an unindexed parallel iterator: the workers' lists, in the
\* order of the splits
RECURSIVE ConcatLocals(_, _)
ConcatLocalsFirstOnly(local, w) ==
    IF w > 1 THEN << >> ELSE local[w]
ConcatLocals(local, w) ==
    IF w > SentWorkers THEN << >> ELSE local[w] \o ConcatLocals(local, w + 1)

\* process_record without the test of the body
ProcessRecordOutcomesAnyBody(rec) == {FilterMapIdentify(Kept(rec.lines))}

\* Every value process_record can return for a record: each kept line is
\* pulled by one of the workers, a worker keeps its lines in pull order.
ProcessRecordOutcomes(rec) ==
    IF ~rec.utf8 THEN {None}
    ELSE LET kept == Kept(rec.lines)
             n == Len(kept)
             idx == [i \in 1..n |-> i]
             mine(asg, w) ==
                 LET is == SelectSeq(idx, LAMBDA i : asg[i] = w)
                 IN  [j \in DOMAIN is |-> kept[is[j]]]
         IN  {ConcatLocals([w \in 1..SentWorkers |-> FilterMapIdentify(mine(asg, w))], 1) :
                  asg \in [1..n -> 1..SentWorkers]}

(***************************************************************************)
(* process_record, step by step.                                           *)
(***************************************************************************)
RIdle ==
    /\ rbody = NoRecord
    /\ rpc = "idle"
    /\ rpos = 0
    /\ rheld = [w \in 1..SentWorkers |-> NoLine]
    /\ rlocal = [w \in 1..SentWorkers |-> << >>]
    /\ rresult = None

InitRecord ==
    /\ rbody \in RecordInputs
    /\ rpc = "start"
    /\ rpos = 0
    /\ rheld = [w \in 1..SentWorkers |-> NoLine]
    /\ rlocal = [w \in 1..SentWorkers |-> << >>]
    /\ rresult = None

\* String::from_utf8(..).ok(): an invalid body ends the call with None
PR_Decode ==
    /\ rpc = "start"
    /\ IF rbody.utf8
       THEN /\ rpc' = "par"
            /\ rresult' = rresult
       ELSE /\ rpc' = "done"
            /\ rresult' = None
    /\ UNCHANGED <<rbody, rpos, rheld, rlocal>>
    /\ UNCHANGED notR

\* The places of the body, after rpos, of lines the filter lets through
KeptAfter(lines, pos) == {i \in (pos + 1)..Len(lines) : LongEnough(lines[i])}

Min(S) == CHOOSE x \in S : \A y \in S : x <= y

\* A worker takes the next line from the shared, filtered iterator
PR_Pull(w) ==
    /\ rpc = "par"
    /\ rheld[w] = NoLine
    /\ KeptAfter(rbody.lines, rpos) # {}
    /\ LET i == Min(KeptAfter(rbody.lines, rpos))
       IN  /\ rheld' = [rheld EXCEPT ![w] = rbody.lines[i]]
           /\ rpos' = i
    /\ UNCHANGED <<rbody, rpc, rlocal, rresult>>
    /\ UNCHANGED notR

\* The worker classifies its line and keeps the pair, if any
PR_Identify(w) ==
    /\ rpc = "par"
    /\ rheld[w] # NoLine
    /\ rlocal' = [rlocal EXCEPT ![w] = @ \o FilterMapIdentify(<<rheld[w]>>)]
    /\ rheld' = [rheld EXCEPT ![w] = NoLine]
    /\ UNCHANGED <<rbody, rpc, rpos, rresult>>
    /\ UNCHANGED notR

\* collect(): the iterator is exhausted and every worker is done
PR_Collect ==
    /\ rpc = "par"
    /\ KeptAfter(rbody.lines, rpos) = {}
    /\ \A w \in 1..SentWorkers : rheld[w] = NoLine
    /\ rresult' = ConcatLocals(rlocal, 1)
    /\ rpc' = "done"
    /\ UNCHANGED <<rbody, rpos, rheld, rlocal>>
    /\ UNCHANGED notR

(***************************************************************************)
(* The rebuild journal: the Avro schema, the serde image of the structs,   *)
(* the binary encoding and the writer.                                     *)
(***************************************************************************)
\* ---- Avro schemas
SPrim(t) == [type |-> t, items |-> << >>, fields |-> << >>]
SArray(item) == [type |-> "array", items |-> <<item>>, fields |-> << >>]
SUnion(variants) == [type |-> "union", items |-> variants, fields |-> << >>]
SRecord(fields) == [type |-> "record", items |-> << >>, fields |-> fields]
SField(n, s) == [name |-> n, schema |-> s]

\* {"name":"identification", "type":"record", "fields": [label, prob]}
IdentificationSchema ==
    SRecord(<<SField("label", SPrim("string")), SField("prob", SPrim("float"))>>)

\* {"name":"annotation", "type":["null", {"type": "array", "items":"string"}]}
AnnotationSchemaNoNull == SArray(SPrim("string"))
AnnotationSchema == SUnion(<<SPrim("null"), SArray(SPrim("string"))>>)

\* {"name": "sentence_identifications", "type":"array", "items":["null", "identification"]}
SentenceIdentificationsSchema ==
    SArray(SUnion(<<SPrim("null"), IdentificationSchema>>))

MetadataSchema ==
    SRecord(<<SField("identification", IdentificationSchema),
              SField("annotation", AnnotationSchema),
              SField("sentence_identifications", SentenceIdentificationsSchema)>>)

RebuildSchema ==
    SRecord(<<SField("shard_id", SPrim("long")),
              SField("record_id", SPrim("string")),
              SField("line_start", SPrim("long")),
              SField("line_end", SPrim("long")),
              SField("loc_in_shard", SPrim("long")),
              SField("metadata", MetadataSchema)>>)

\* SCHEMA: the fourth schema of the list, shard_result
SCHEMA ==
    SRecord(<<SField("shard_id", SPrim("long")),
              SField("rebuild_info", SArray(RebuildSchema))>>)

\* ---- the structs, as serde sees them: fields in declaration order
TPrim(t) == [ty |-> t, of |-> << >>, fields |-> << >>]
TOption(T) == [ty |-> "option", of |-> <<T>>, fields |-> << >>]
TVec(T) == [ty |-> "vec", of |-> <<T>>, fields |-> << >>]
TStruct(fields) == [ty |-> "struct", of |-> << >>, fields |-> fields]
TField(n, T) == [name |-> n, ty |-> T]

IdentificationTy ==
    TStruct(<<TField("label", TPrim("string")), TField("prob", TPrim("f32"))>>)

MetadataTy ==
    TStruct(<<TField("identification", IdentificationTy),
              TField("annotation", TOption(TVec(TPrim("string")))),
              TField("sentence_identifications", TVec(TOption(IdentificationTy)))>>)

RebuildInformationTy ==
    TStruct(<<TField("shard_id", TPrim("usize")),
              TField("record_id", TPrim("string")),
              TField("line_start", TPrim("usize")),
              TField("line_end", TPrim("usize")),
              TField("loc_in_shard", TPrim("usize")),
              TField("metadata", MetadataTy)>>)

ShardResultTy ==
    TStruct(<<TField("shard_id", TPrim("i64")),
              TField("rebuild_info", TVec(RebuildInformationTy))>>)

\* ---- avro_rs::types::Value
VLong(n) == [t |-> "long", v |-> n]
VString(s) == [t |-> "string", v |-> s]
VFloat(x) == [t |-> "float", v |-> x]
VNull == [t |-> "null", v |-> 0]
VUnion(x) == [t |-> "union", v |-> x]
VArray(xs) == [t |-> "array", v |-> xs]
VRecord(fs) == [t |-> "record", v |-> fs]
VError == [t |-> "error", v |-> 0]

\* An Option is the empty sequence (None) or a sequence of one (Some)
NoneOpt == << >>
Some(x) == <<x>>

\* Serialize for avro_rs's Serializer: the struct as a Value. An unsigned
\* integer becomes a long, None the union of null, a struct a record of its
\* fields by name, in declaration order.
RECURSIVE ToValue(_, _)
ToValue(x, T) ==
    CASE T.ty = "usize" -> IF x >= 0 THEN VLong(x) ELSE VError
      [] T.ty = "i64" -> VLong(x)
      [] T.ty = "string" -> VString(x)
      [] T.ty = "f32" -> VFloat(x)
      [] T.ty = "option" ->
            IF x = NoneOpt THEN VUnion(VNull) ELSE VUnion(ToValue(x[1], T.of[1]))
      [] T.ty = "vec" -> VArray([i \in DOMAIN x |-> ToValue(x[i], T.of[1])])
      [] T.ty = "struct" ->
            VRecord([i \in DOMAIN T.fields |->
                        [name |-> T.fields[i].name,
                         value |-> ToValue(x[T.fields[i].name], T.fields[i].ty)]])

\* UnionSchema::find_schema: the first variant of the value's kind, or 0
FindSchema(v, variants) ==
    LET c == {i \in DOMAIN variants : variants[i].type = v.t}
    IN  IF c = {} THEN 0 ELSE Min(c)

\* Value::validate: a record matches field by field, by position and name
RECURSIVE Validate(_, _)
Validate(v, s) ==
    CASE s.type \in {"long", "string", "float", "null"} -> v.t = s.type
      [] s.type = "array" ->
            v.t = "array" /\ \A i \in DOMAIN v.v : Validate(v.v[i], s.items[1])
      [] s.type = "union" -> v.t = "union" /\ FindSchema(v.v, s.items) # 0
      [] s.type = "record" ->
            /\ v.t = "record"
            /\ Len(v.v) = Len(s.fields)
            /\ \A i \in DOMAIN v.v :
                   /\ v.v[i].name = s.fields[i].name
                   /\ Validate(v.v[i].value, s.fields[i].schema)

\* ---- the binary encoding, as the stream of its items
TokLong(z) == [k |-> "long", v |-> z]
TokBytes(s) == [k |-> "bytes", v |-> s]
TokFloat(x) == [k |-> "float", v |-> x]

\* A long is written zig-zag: 0, -1, 1, -2, .. as 0, 1, 2, 3, ..
ZigZag(n) == IF n >= 0 THEN 2 * n ELSE -2 * n - 1
UnZigZag(z) == IF z % 2 = 0 THEN z \div 2 ELSE -((z + 1) \div 2)

\* encode_ref: a string with its length, a union with the index of its
\* variant, an array as one block of its items and a closing 0, a record as
\* its fields in order
RECURSIVE Encode(_, _), EncodeItems(_, _, _), EncodeFields(_, _, _)
Encode(v, s) ==
    CASE s.type = "long" -> <<TokLong(ZigZag(v.v))>>
      [] s.type = "string" -> <<TokLong(ZigZag(Len(v.v))), TokBytes(v.v)>>
      [] s.type = "float" -> <<TokFloat(v.v)>>
      [] s.type = "null" -> << >>
      [] s.type = "array" ->
            IF Len(v.v) = 0 THEN <<TokLong(0)>>
            ELSE <<TokLong(ZigZag(Len(v.v)))>> \o EncodeItems(v.v, s.items[1], 1)
                     \o <<TokLong(0)>>
      [] s.type = "union" ->
            LET i == FindSchema(v.v, s.items)
            IN  <<TokLong(ZigZag(i - 1))>> \o Encode(v.v, s.items[i])
      [] s.type = "record" -> EncodeFields(v.v, s.fields, 1)

EncodeItems(vs, item, i) ==
    IF i > Len(vs) THEN << >>
    ELSE Encode(vs[i], item) \o EncodeItems(vs, item, i + 1)

EncodeFields(fs, fields, i) ==
    IF i > Len(fs) THEN << >>
    ELSE Encode(fs[i].value, fields[i].schema) \o EncodeFields(fs, fields, i + 1)

\* decode: the value a schema reads from the head of a stream, and the rest
RECURSIVE Decode(_, _), DecodeArray(_, _, _), DecodeItems(_, _, _, _), DecodeFields(_, _, _, _)
Decode(ts, s) ==
    CASE s.type = "long" -> [val |-> VLong(UnZigZag(ts[1].v)), rest |-> Tail(ts)]
      [] s.type = "string" -> [val |-> VString(ts[2].v), rest |-> Tail(Tail(ts))]
      [] s.type = "float" -> [val |-> VFloat(ts[1].v), rest |-> Tail(ts)]
      [] s.type = "null" -> [val |-> VNull, rest |-> ts]
      [] s.type = "array" -> DecodeArray(ts, s.items[1], << >>)
      [] s.type = "union" ->
            LET r == Decode(Tail(ts), s.items[UnZigZag(ts[1].v) + 1])
            IN  [val |-> VUnion(r.val), rest |-> r.rest]
      [] s.type = "record" -> DecodeFields(ts, s.fields, 1, << >>)

DecodeArray(ts, item, acc) ==
    LET n == UnZigZag(ts[1].v)
    IN  IF n = 0 THEN [val |-> VArray(acc), rest |-> Tail(ts)]
        ELSE LET r == DecodeItems(Tail(ts), item, n, acc)
             IN  DecodeArray(r.rest, item, r.val)

DecodeItems(ts, item, n, acc) ==
    IF n = 0 THEN [val |-> acc, rest |-> ts]
    ELSE LET r == Decode(ts, item)
         IN  DecodeItems(r.rest, item, n - 1, Append(acc, r.val))

DecodeFields(ts, fields, i, acc) ==
    IF i > Len(fields) THEN [val |-> VRecord(acc), rest |-> ts]
    ELSE LET r == Decode(ts, fields[i].schema)
         IN  DecodeFields(r.rest, fields, i + 1,
                          Append(acc, [name |-> fields[i].name, value |-> r.val]))

\* from_value: the struct a Value deserializes to, its fields found by name
RECURSIVE FromValue(_, _)
FromValue(v, T) ==
    CASE T.ty \in {"usize", "i64", "string", "f32"} -> v.v
      [] T.ty = "option" ->
            IF v.v.t = "null" THEN NoneOpt ELSE Some(FromValue(v.v, T.of[1]))
      [] T.ty = "vec" -> [i \in DOMAIN v.v |-> FromValue(v.v[i], T.of[1])]
      [] T.ty = "struct" ->
            [n \in {T.fields[i].name : i \in DOMAIN T.fields} |->
                LET i == CHOOSE j \in DOMAIN T.fields : T.fields[j].name = n
                    f == CHOOSE k \in DOMAIN v.v : v.v[k].name = n
                IN  FromValue(v.v[f].value, T.fields[i].ty)]

\* ---- the values put through the journal
IdentificationInputs == {[label |-> "en", prob |-> p] : p \in {0, 1}}

MetadataInputs ==
    {[identification |-> id, annotation |-> a, sentence_identifications |-> si] :
        id \in IdentificationInputs,
        a \in {NoneOpt, Some(<<"tiny">>)},
        si \in {<< >>, <<NoneOpt>>, <<NoneOpt, Some([label |-> "fr", prob |-> 1])>>}}

\* RebuildInformation::new(location, metadata)
RebuildInformationNew(location, metadata) ==
    [shard_id |-> location.shard_id,
     record_id |-> location.record_id,
     line_start |-> location.line_start,
     line_end |-> location.line_end,
     loc_in_shard |-> location.loc_in_shard,
     metadata |-> metadata]

LocationInputs ==
    {[shard_id |-> s, record_id |-> r, line_start |-> 0, line_end |-> e, loc_in_shard |-> 0] :
        s \in {0, 2}, r \in {"", "r1"}, e \in {0, 1}}

RebuildInformationInputs ==
    {RebuildInformationNew(l, m) : l \in LocationInputs, m \in MetadataInputs}

ShardResultInputs ==
    {[shard_id |-> s, rebuild_info |-> ri] :
        s \in {-1, 0, 1}, ri \in SeqsUpTo(RebuildInformationInputs, MaxInfos)}

NoShardResult == [shard_id |-> 0, rebuild_info |-> << >>]

\* ---- RebuildInformation and ShardResult from their parts
\* Location::new(shard_id, record_id, line_start, line_end, loc_in_shard)
LocationNew(shard_id, record_id, line_start, line_end, loc_in_shard) ==
    [shard_id |-> shard_id, record_id |-> record_id, line_start |-> line_start,
     line_end |-> line_end, loc_in_shard |-> loc_in_shard]

\* The accessors of RebuildInformation
ShardId(ri) == ri.shard_id
RecordId(ri) == ri.record_id
LineStart(ri) == ri.line_start
LineEnd(ri) == ri.line_end
LocInShard(ri) == ri.loc_in_shard
MetadataOf(ri) == ri.metadata

\* RebuildInformation::into_raw_parts
IntoRawPartsSwapped(ri) ==
    <<LocationNew(ri.shard_id, ri.record_id, ri.line_end, ri.line_start, ri.loc_in_shard),
      ri.metadata>>
IntoRawParts(ri) ==
    <<LocationNew(ri.shard_id, ri.record_id, ri.line_start, ri.line_end, ri.loc_in_shard),
      ri.metadata>>

\* locations.into_iter().zip(metadata.into_iter()): pairs, until one of the
\* two is exhausted
RECURSIVE Zip(_, _)
ZipFromTheEnd(a, b) ==
    IF a = << >> \/ b = << >> THEN << >>
    ELSE <<<<Head(a), b[Len(b)]>>>> \o Zip(Tail(a), SubSeq(b, 1, Len(b) - 1))
Zip(a, b) ==
    IF a = << >> \/ b = << >> THEN << >>
    ELSE <<<<Head(a), Head(b)>>>> \o Zip(Tail(a), Tail(b))

\* ShardResult::new(shard_id, locations, metadata)
ShardResultNew(shard_id, locations, metadata) ==
    LET zipped == Zip(locations, metadata)
    IN  [shard_id |-> shard_id,
         rebuild_info |->
             [i \in DOMAIN zipped |-> RebuildInformationNew(zipped[i][1], zipped[i][2])]]

\* Location::default(), and two locations whose fields all differ
BuildLocations ==
    {LocationNew(0, "", 0, 0, 0),
     LocationNew(1, "r1", 2, 3, 4),
     LocationNew(5, "r2", 6, 8, 7)}

BuildMetadata ==
    {[identification |-> [label |-> "en", prob |-> 1],
      annotation |-> NoneOpt,
      sentence_identifications |-> << >>],
     [identification |-> [label |-> "fr", prob |-> 0],
      annotation |-> Some(<<"tiny">>),
      sentence_identifications |-> <<NoneOpt>>],
     [identification |-> [label |-> "en", prob |-> 0],
      annotation |-> NoneOpt,
      sentence_identifications |-> <<Some([label |-> "fr", prob |-> 1])>>]}

NoInfo == RebuildInformationNew(LocationNew(0, "", 0, 0, 0),
                                CHOOSE m \in BuildMetadata : m.annotation = NoneOpt
                                    /\ m.sentence_identifications = << >>)

(***************************************************************************)
(* Shards, documents and pieces.                                           *)
(***************************************************************************)
En == [chars |-> MinChars + 1, pred |-> "en"]
Fr == [chars |-> MinChars + 1, pred |-> "fr"]
Xx == [chars |-> MinChars + 1, pred |-> "xx"]
Short == [chars |-> MinChars, pred |-> "en"]

MkShard(readable, records) == [readable |-> readable, records |-> records]

\* Record A (two English lines, one French line) then record B (one English line)
ShardE2E ==
    MkShard(TRUE, <<MkRecord("ok", TRUE, MkLines(<<En, En, Fr>>)),
                    MkRecord("ok", TRUE, MkLines(<<En>>))>>)

\* A shard Wet::from_path_gzip cannot open
ShardUnreadable == MkShard(FALSE, << >>)

\* One record of two languages, with a short line and an unknown label
\* between, and a record the reader fails on
ShardMixed ==
    MkShard(TRUE, <<MkRecord("ok", TRUE, MkLines(<<En, Short, Xx, Fr>>)),
                    MkRecord("err", FALSE, << >>)>>)

\* Two English records around a body that is not UTF-8
ShardFaulty ==
    MkShard(TRUE, <<MkRecord("ok", TRUE, MkLines(<<En>>)),
                    MkRecord("ok", FALSE, << >>),
                    MkRecord("ok", TRUE, MkLines(<<En>>))>>)

ShardKinds == {ShardUnreadable, ShardMixed, ShardFaulty}

ShardInputs == SeqsUpTo(ShardKinds, NumShards) \ {<< >>}

ShardIds == DOMAIN shards

\* Document::new(header, sentences, langs), from one entry of shard_results:
\* the pairs split into their sentences and their languages
DocSentences(pairs) == [i \in DOMAIN pairs |-> pairs[i][1]]
DocLangsSwapped(pairs) == [i \in DOMAIN pairs |-> pairs[Len(pairs) + 1 - i][2]]
DocLangs(pairs) == [i \in DOMAIN pairs |-> pairs[i][2]]

DocumentNew(header, sentences, langs) ==
    [header |-> header, sentences |-> sentences, langs |-> langs]

MkPiece(lang, lines, header, first, last) ==
    [lang |-> lang, lines |-> lines, header |-> header, first |-> first, last |-> last]

\* Document::into_merged_pieces_lang, one sentence: it joins the last piece
\* when that piece has its language, and starts a piece otherwise; a piece
\* keeps the offsets of its first and last line in the document (from 0)
MergeOne(doc, i, acc) ==
    IF acc # << >> /\ acc[Len(acc)].lang = doc.langs[i]
    THEN [acc EXCEPT ![Len(acc)] =
             [@ EXCEPT !.lines = Append(@, doc.sentences[i]), !.last = i - 1]]
    ELSE Append(acc, MkPiece(doc.langs[i], <<doc.sentences[i]>>, doc.header, i - 1, i - 1))

RECURSIVE MergeFrom(_, _, _)
MergeFrom(doc, i, acc) ==
    IF i > Len(doc.sentences) THEN acc
    ELSE MergeFrom(doc, i + 1, MergeOne(doc, i, acc))

IntoMergedPiecesLang(doc) == MergeFrom(doc, 1, << >>)

\* One entry of shard_results into its pieces (run, the two iterator chains
\* after the record-level collect)
PiecesOfResult(res) ==
    IntoMergedPiecesLang(
        DocumentNew(res.header, DocSentences(res.pairs), DocLangs(res.pairs)))

\* docs_merged: the pieces of every document, flattened in the order of shard_results
RECURSIVE DocsMerged(_)
DocsMerged(results) ==
    IF results = << >> THEN << >>
    ELSE PiecesOfResult(Head(results)) \o DocsMerged(Tail(results))

\* lang_pieces: the pieces of each language, in the order of docs_merged
GroupByLang(pieces) ==
    [l \in LANG |-> SelectSeq(pieces, LAMBDA p : p.lang = l)]

(***************************************************************************)
(* run.                                                                    *)
(***************************************************************************)
\* The idle values of the other specifications' variables
SIdle ==
    /\ sval = NoShardResult
    /\ sunder = << >>
    /\ sbuffer = << >>
    /\ snum = 0
    /\ shdr = FALSE
    /\ sres = "none"
    /\ sread = [ok |-> FALSE, values |-> << >>]
    /\ serpc = "idle"

DIdle ==
    /\ dst0 = [kind |-> "absent", entries |-> {}]
    /\ dkind = "absent"
    /\ dentries = {}
    /\ dpc = "idle"
    /\ dlog = {}
    /\ dwriters = {}
    /\ dresult = "none"
    /\ dioerr = {}

BIdle ==
    /\ bshard = 0
    /\ blocs = << >>
    /\ bmetas = << >>
    /\ binfo = NoInfo
    /\ bparts = IntoRawParts(NoInfo)
    /\ bsr = NoShardResult
    /\ bpc = "idle"

NoDoc == DocumentNew(0, << >>, << >>)

MIdle ==
    /\ minput = << >>
    /\ mdoc = NoDoc
    /\ mpos = 0
    /\ mpieces = << >>
    /\ mpc = "idle"

PIdle ==
    /\ shards = << >>
    /\ spc = << >>
    /\ todo = << >>
    /\ shard_results = << >>
    /\ lang_pieces = << >>
    /\ wst = << >>
    /\ wnext = << >>
    /\ wstart = << >>
    /\ lock = [l \in LANG |-> 0]
    /\ poisoned = [l \in LANG |-> FALSE]
    /\ counter = [l \in LANG |-> 0]
    /\ content = [l \in LANG |-> << >>]
    /\ meta = [l \in LANG |-> << >>]
    /\ errors = {}
    /\ run_pc = "idle"
    /\ io_failures = 0
    /\ acquired = [l \in LANG |-> << >>]

\* The state when run starts iterating over the shards: LangFiles::new has
\* made one writer per language
InitRun(inputs) ==
    /\ shards \in inputs
    /\ spc = [s \in DOMAIN shards |-> "start"]
    /\ todo = [s \in DOMAIN shards |-> {}]
    /\ shard_results = [s \in DOMAIN shards |-> << >>]
    /\ lang_pieces = [s \in DOMAIN shards |-> [l \in LANG |-> << >>]]
    /\ wst = [s \in DOMAIN shards |-> [l \in LANG |-> "none"]]
    /\ wnext = [s \in DOMAIN shards |-> [l \in LANG |-> 0]]
    /\ wstart = [s \in DOMAIN shards |-> [l \in LANG |-> -1]]
    /\ lock = [l \in LANG |-> 0]
    /\ poisoned = [l \in LANG |-> FALSE]
    /\ counter = [l \in LANG |-> 0]
    /\ content = [l \in LANG |-> << >>]
    /\ meta = [l \in LANG |-> << >>]
    /\ errors = {}
    /\ run_pc = "running"
    /\ io_failures = 0
    /\ acquired = [l \in LANG |-> << >>]

\* return shard.err(): the error joins the ones filter_map collects
CollectedErrorsDropped(errs, s) == errs
CollectedErrors(errs, s) == errs \cup {s}

\* Wet::from_path_gzip(&shard): an unreadable shard ends its worker with the error
Open(s) ==
    /\ run_pc = "running"
    /\ spc[s] = "start"
    /\ IF shards[s].readable
       THEN /\ spc' = [spc EXCEPT ![s] = "records"]
            /\ todo' = [todo EXCEPT ![s] = DOMAIN shards[s].records]
            /\ errors' = errors
       ELSE /\ spc' = [spc EXCEPT ![s] = "failed"]
            /\ todo' = todo
            /\ errors' = CollectedErrors(errors, s)
    /\ UNCHANGED <<shards, shard_results, lang_pieces, wst, wnext, wstart, lock,
                   poisoned, counter, content, meta, run_pc, io_failures>>
    /\ UNCHANGED acquired
    /\ UNCHANGED notP

\* One record goes through the filter_map closure of the record-level bridge:
\* an Err record and a None of process_record leave nothing, the others are
\* gathered in the order in which the workers hand them over.
ProcessRecord(s, r) ==
    /\ spc[s] = "records"
    /\ r \in todo[s]
    /\ todo' = [todo EXCEPT ![s] = @ \ {r}]
    /\ LET rec == shards[s].records[r]
       IN  IF rec.kind = "err"
           THEN shard_results' = shard_results
           ELSE \E out \in ProcessRecordOutcomes(rec) :
                    IF out = None
                    THEN shard_results' = shard_results
                    ELSE shard_results' =
                             [shard_results EXCEPT ![s] = Append(@, [pairs |-> out, header |-> r])]
    /\ UNCHANGED <<shards, spc, lang_pieces, wst, wnext, wstart, lock, poisoned,
                   counter, content, meta, errors, run_pc, io_failures>>
    /\ UNCHANGED acquired
    /\ UNCHANGED notP

\* .collect() "is blocking": it returns once every record went through
CollectReadyEarly(s) == TRUE
CollectReady(s) == todo[s] = {}

\* lang_pieces.entry(piece.identification()).or_insert_with(Vec::new): the
\* map has a key for a language once a piece of the language was pushed
HasEntryAlways(grouped, l) == TRUE
HasEntry(grouped, l) == grouped[l] # << >>

\* Documents, merged pieces and the per-language map, then the write tasks of
\* lang_pieces.into_par_iter(), one for each key of the map
MergeAndGroup(s) ==
    /\ spc[s] = "records"
    /\ CollectReady(s)
    /\ LET grouped == GroupByLang(DocsMerged(shard_results[s]))
       IN  /\ lang_pieces' = [lang_pieces EXCEPT ![s] = grouped]
           /\ wst' = [wst EXCEPT ![s] =
                         [l \in LANG |-> IF HasEntry(grouped, l) THEN "ready" ELSE "none"]]
    /\ spc' = [spc EXCEPT ![s] = "write"]
    /\ UNCHANGED <<shards, todo, shard_results, wnext, wstart, lock, poisoned,
                   counter, content, meta, errors, run_pc, io_failures>>
    /\ UNCHANGED acquired
    /\ UNCHANGED notP

\* Mutex::lock blocks while another task holds the mutex
LockFreeAlways(l) == TRUE
LockFreeGlobal(l) == \A k \in LANG : lock[k] = 0
LockFree(l) == lock[l] = 0

\* The MutexGuard goes out of scope, at the end of the closure or while a
\* panic unwinds it: the mutex is free again
GuardKept(lk, l) == lk
GuardDropped(lk, l) == [lk EXCEPT ![l] = 0]

\* writer.lock().unwrap(): the task takes the language's mutex; a poisoned
\* mutex makes unwrap panic, and the guard inside the error is dropped
Lock(s, l) ==
    /\ spc[s] = "write"
    /\ wst[s][l] = "ready"
    /\ LockFree(l)
    /\ IF poisoned[l]
       THEN /\ wst' = [wst EXCEPT ![s][l] = "panicked"]
            /\ lock' = lock
            /\ acquired' = acquired
       ELSE /\ wst' = [wst EXCEPT ![s][l] = "locked"]
            /\ lock' = [lock EXCEPT ![l] = s]
            /\ acquired' = [acquired EXCEPT ![l] = Append(@, s)]
    /\ UNCHANGED <<shards, spc, todo, shard_results, lang_pieces, wnext, wstart,
                   poisoned, counter, content, meta, errors, run_pc, io_failures>>
    /\ UNCHANGED notP

\* The line id of a sentence in a content file: shard, record, line of the body
LineIds(s, piece) == [i \in DOMAIN piece.lines |-> <<s, piece.header, piece.lines[i]>>]

\* write(pieces), first half for one piece: the writer reads its line counter
WriteOffset(s, l) ==
    /\ wst[s][l] = "locked"
    /\ wnext[s][l] < Len(lang_pieces[s][l])
    /\ wstart[s][l] = -1
    /\ wstart' = [wstart EXCEPT ![s][l] = counter[l]]
    /\ UNCHANGED <<shards, spc, todo, shard_results, lang_pieces, wst, wnext, lock,
                   poisoned, counter, content, meta, errors, run_pc, io_failures>>
    /\ UNCHANGED acquired
    /\ UNCHANGED notP

\* write(pieces), second half for one piece: the lines are appended, the
\* counter advanced and the range recorded; or the file system fails, write
\* returns Err, unwrap panics and the guard poisons the mutex as it is dropped
WritePiece(s, l) ==
    /\ wst[s][l] = "locked"
    /\ wnext[s][l] < Len(lang_pieces[s][l])
    /\ wstart[s][l] # -1
    /\ \E ok \in (IF io_failures < MaxIoFailures THEN BOOLEAN ELSE {TRUE}) :
         IF ok
         THEN LET piece == lang_pieces[s][l][wnext[s][l] + 1]
                  n == Len(piece.lines)
              IN  /\ content' = [content EXCEPT ![l] = @ \o LineIds(s, piece)]
                  /\ counter' = [counter EXCEPT ![l] = wstart[s][l] + n]
                  /\ meta' = [meta EXCEPT ![l] =
                                 Append(@, [shard_id |-> s,
                                            record_id |-> piece.header,
                                            line_start |-> wstart[s][l],
                                            line_end |-> wstart[s][l] + n - 1,
                                            loc_in_shard |-> wnext[s][l],
                                            lines |-> LineIds(s, piece)])]
                  /\ wnext' = [wnext EXCEPT ![s][l] = @ + 1]
                  /\ wstart' = [wstart EXCEPT ![s][l] = -1]
                  /\ UNCHANGED <<wst, lock, poisoned, io_failures>>
         ELSE /\ wst' = [wst EXCEPT ![s][l] = "panicked"]
              /\ lock' = GuardDropped(lock, l)
              /\ poisoned' = [poisoned EXCEPT ![l] = TRUE]
              /\ io_failures' = io_failures + 1
              /\ UNCHANGED <<content, counter, meta, wnext, wstart>>
    /\ UNCHANGED <<shards, spc, todo, shard_results, lang_pieces, errors, run_pc>>
    /\ UNCHANGED acquired
    /\ UNCHANGED notP

\* The closure of for_each ends: the guard is dropped, the mutex released
Unlock(s, l) ==
    /\ wst[s][l] = "locked"
    /\ wnext[s][l] = Len(lang_pieces[s][l])
    /\ wst' = [wst EXCEPT ![s][l] = "done"]
    /\ lock' = GuardDropped(lock, l)
    /\ UNCHANGED <<shards, spc, todo, shard_results, lang_pieces, wnext, wstart,
                   poisoned, counter, content, meta, errors, run_pc, io_failures>>
    /\ UNCHANGED acquired
    /\ UNCHANGED notP

\* for_each returns once every write task of the shard ended; a panic of one
\* of them is resumed in the shard worker, otherwise the closure returns None
ShardEnd(s) ==
    /\ spc[s] = "write"
    /\ \A l \in LANG : wst[s][l] \in {"none", "done", "panicked"}
    /\ spc' = [spc EXCEPT ![s] =
                  IF \E l \in LANG : wst[s][l] = "panicked" THEN "panicked" ELSE "done"]
    /\ UNCHANGED <<shards, todo, shard_results, lang_pieces, wst, wnext, wstart, lock,
                   poisoned, counter, content, meta, errors, run_pc, io_failures>>
    /\ UNCHANGED acquired
    /\ UNCHANGED notP

\* The shard-level collect() returns: the collected errors are logged and run
\* returns Ok(()), or the panic of a shard worker is resumed in run
RunEnd ==
    /\ run_pc = "running"
    /\ \A s \in ShardIds : spc[s] \in {"done", "failed", "panicked"}
    /\ run_pc' = IF \E s \in ShardIds : spc[s] = "panicked" THEN "panicked" ELSE "returned"
    /\ UNCHANGED <<shards, spc, todo, shard_results, lang_pieces, wst, wnext, wstart,
                   lock, poisoned, counter, content, meta, errors, io_failures>>
    /\ UNCHANGED acquired
    /\ UNCHANGED notP

Next ==
    \/ \E s \in ShardIds : Open(s)
    \/ \E s \in ShardIds : \E r \in todo[s] : ProcessRecord(s, r)
    \/ \E s \in ShardIds : MergeAndGroup(s)
    \/ \E s \in ShardIds, l \in LANG : Lock(s, l)
    \/ \E s \in ShardIds, l \in LANG : WriteOffset(s, l)
    \/ \E s \in ShardIds, l \in LANG : WritePiece(s, l)
    \/ \E s \in ShardIds, l \in LANG : Unlock(s, l)
    \/ \E s \in ShardIds : ShardEnd(s)
    \/ RunEnd

Init == InitRun(ShardInputs) /\ RIdle /\ DIdle /\ MIdle /\ SIdle /\ BIdle

Spec == Init /\ [][Next]_vars

\* The fair runs start from the directories of one or two shards
LiveInputs == {d \in ShardInputs : Len(d) <= 2}

InitLive == InitRun(LiveInputs) /\ RIdle /\ DIdle /\ MIdle /\ SIdle /\ BIdle

\* The threads of the pool are scheduled: a step that can be taken is taken
SpecLive == InitLive /\ [][Next]_vars /\ WF_vars(Next)

\* The end-to-end case: one shard, record A then record B
InitE2E == InitRun({<<ShardE2E>>}) /\ RIdle /\ DIdle /\ MIdle /\ SIdle /\ BIdle

SpecE2E == InitE2E /\ [][Next]_vars


(***************************************************************************)
(* Properties of run.                                                      *)
(***************************************************************************)
\* The lines a provenance entry stands for, by their number in the content file
RangeOf(e) == e.line_start..e.line_end

\* C1 (offset tiling): in every state, for every language, the line ranges
\* recorded for the pieces written so far are pairwise disjoint, together cover
\* exactly the lines 0 .. total_lines_written - 1 of the content file, and the
\* lines the file holds in a recorded range are the lines of that piece.
OffsetTiling ==
    \A l \in LANG :
        /\ \A i, j \in DOMAIN meta[l] :
               i # j => RangeOf(meta[l][i]) \cap RangeOf(meta[l][j]) = {}
        /\ \A i \in DOMAIN meta[l] :
               /\ meta[l][i].line_start <= meta[l][i].line_end
               /\ RangeOf(meta[l][i]) \subseteq 0..(Len(content[l]) - 1)
               /\ SubSeq(content[l], meta[l][i].line_start + 1, meta[l][i].line_end + 1)
                      = meta[l][i].lines
        /\ \A k \in 0..(Len(content[l]) - 1) :
               \E i \in DOMAIN meta[l] : k \in RangeOf(meta[l][i])

\* Two shards have both written pieces to one language, one of them a batch
\* of two pieces, and run has returned
OffsetTilingWitness ==
    /\ run_pc = "returned"
    /\ \E l \in LANG : \E i, j, k \in DOMAIN meta[l] :
           /\ meta[l][i].shard_id # meta[l][j].shard_id
           /\ j # k
           /\ meta[l][j].shard_id = meta[l][k].shard_id

\* C2 (per-language mutual exclusion): in every state at most one shard worker
\* is between lock() and the drop of the guard of a language, it is the one
\* the mutex names, and the offset a write has read is still the counter of
\* the writer when it appends.
MutualExclusion ==
    \A l \in LANG :
        /\ Cardinality({s \in ShardIds : wst[s][l] = "locked"}) <= 1
        /\ \A s \in ShardIds :
               /\ wst[s][l] = "locked" => lock[l] = s
               /\ wstart[s][l] # -1 => wstart[s][l] = counter[l]

\* A worker is in the middle of a write of a language while another worker
\* waits for the same language
MutualExclusionWitness ==
    \E l \in LANG : \E s1, s2 \in ShardIds :
        /\ s1 # s2
        /\ wst[s1][l] = "locked"
        /\ wstart[s1][l] # -1
        /\ wst[s2][l] = "ready"

\* The shards whose pieces a language has received
Written(s, l) == {i \in DOMAIN meta[l] : meta[l][i].shard_id = s}

\* C7 (per-shard barrier): whenever a write task of a shard has taken a lock,
\* has ended, or a piece of the shard is in a content file, every record of
\* the shard has been through process_record and the pieces of the shard are
\* the merged pieces of all its gathered records.
ShardBarrier ==
    \A s \in ShardIds : \A l \in LANG :
        (wst[s][l] \in {"locked", "done", "panicked"} \/ Written(s, l) # {})
            => /\ todo[s] = {}
               /\ spc[s] \notin {"start", "records"}
               /\ lang_pieces[s] = GroupByLang(DocsMerged(shard_results[s]))

\* A shard of three records is writing
ShardBarrierWitness ==
    \E s \in ShardIds : \E l \in LANG :
        /\ Len(shards[s].records) >= 3
        /\ wst[s][l] = "locked"
        /\ wnext[s][l] > 0

\* C8 (a shard that cannot be opened): such a shard never writes and its error
\* is collected; when run returns, it returns Ok with exactly the errors of the
\* unreadable shards, and every readable shard has processed all its records
\* and written all its pieces; run ends otherwise only if a write failed.
ShardFailureNotFatal ==
    /\ \A s \in ShardIds :
           ~shards[s].readable =>
               /\ \A l \in LANG : wst[s][l] = "none" /\ Written(s, l) = {}
               /\ spc[s] \in {"start", "failed"}
               /\ spc[s] = "failed" => s \in errors
    /\ run_pc = "returned" =>
           /\ errors = {s \in ShardIds : ~shards[s].readable}
           /\ \A s \in ShardIds :
                  shards[s].readable =>
                      /\ spc[s] = "done"
                      /\ todo[s] = {}
                      /\ \A l \in LANG :
                             Cardinality(Written(s, l)) = Len(lang_pieces[s][l])
    /\ run_pc = "panicked" => io_failures > 0

\* run has returned after an unreadable shard, and a readable shard that came
\* after it in the directory has written its pieces
ShardFailureWitness ==
    /\ run_pc = "returned"
    /\ \E s1, s2 \in ShardIds :
           /\ s1 < s2
           /\ ~shards[s1].readable
           /\ shards[s2].readable
           /\ \E l \in LANG : Written(s2, l) # {}

\* How many times a shard is in a sequence of shards
Count(seq, s) == Cardinality({i \in DOMAIN seq : seq[i] = s})

\* The languages of the sentences the records of a shard gave
LangsOf(s) ==
    UNION {{shard_results[s][k].pairs[i][2] : i \in DOMAIN shard_results[s][k].pairs} :
              k \in DOMAIN shard_results[s]}

\* C12 (one batch per shard and language): a shard takes the writer of a
\* language at most once, and only for a language it has a piece of; a write
\* task that has ended wrote the whole batch under that one acquisition; and
\* when a shard worker has ended normally, it has written exactly one batch
\* to every language its records gave a sentence of and none to the others.
\* A batch is left out only when the mutex was poisoned by a failed write.
OneBatchPerLanguage ==
    \A s \in ShardIds : \A l \in LANG :
        /\ Count(acquired[l], s) <= 1
        /\ Count(acquired[l], s) = 1 =>
               (shards[s].readable /\ lang_pieces[s][l] # << >>)
        /\ wst[s][l] = "done" =>
               /\ Count(acquired[l], s) = 1
               /\ Cardinality(Written(s, l)) = Len(lang_pieces[s][l])
        /\ spc[s] = "done" =>
               (Count(acquired[l], s) = 1 <=> l \in LangsOf(s))
        /\ (spc[s] = "panicked" /\ l \in LangsOf(s) /\ Count(acquired[l], s) = 0) =>
               poisoned[l]

\* A shard worker has ended after one batch of two pieces to a language and
\* no batch to the other
OneBatchWitness ==
    \E s \in ShardIds : \E l1, l2 \in LANG :
        /\ spc[s] = "done"
        /\ Count(acquired[l1], s) = 1
        /\ Len(lang_pieces[s][l1]) = 2
        /\ Count(acquired[l2], s) = 0
        /\ \E s2 \in ShardIds : s2 # s /\ Count(acquired[l1], s2) = 1

\* C13 (languages do not block each other): whenever a write task waits for the
\* writer of a language whose mutex nobody holds, it can take it, whatever
\* tasks hold or wait for the mutexes of the other languages; a task waits
\* only while a task of its own language holds the mutex.
LanguagesIndependent ==
    \A s \in ShardIds : \A l \in LANG :
        (spc[s] = "write" /\ wst[s][l] = "ready") =>
            /\ lock[l] = 0 => ENABLED Lock(s, l)
            /\ ~(ENABLED Lock(s, l)) =>
                   \E s2 \in ShardIds \ {s} : wst[s2][l] = "locked" /\ lock[l] = s2

\* A task holds the writer of a language, a second task waits for it, and a
\* third task is free to take the writer of the other language
LanguagesIndependentWitness ==
    \E s1, s2 \in ShardIds : \E l1, l2 \in LANG :
        /\ s1 # s2
        /\ l1 # l2
        /\ wst[s1][l1] = "locked"
        /\ wst[s2][l1] = "ready"
        /\ \E s3 \in ShardIds : wst[s3][l2] = "ready" /\ ENABLED Lock(s3, l2)

\* The records of a shard the reader yields with a body that is valid UTF-8
GoodRecords(s) ==
    {r \in DOMAIN shards[s].records :
        shards[s].records[r].kind = "ok" /\ shards[s].records[r].utf8}

\* The entries of shard_results that came from a record
ResultsOf(s, r) == {k \in DOMAIN shard_results[s] : shard_results[s][k].header = r}

\* The provenance entries of every language that came from a record
PiecesWritten(s, r) ==
    UNION {{<<l, i>> : i \in {j \in DOMAIN meta[l] :
                                 meta[l][j].shard_id = s /\ meta[l][j].record_id = r}} :
              l \in LANG}

SpcOf(s) == IF s \in ShardIds THEN spc[s] ELSE "absent"

\* C15 (a write that fails aborts the run): once a batch write has returned an
\* I/O error, run never returns Ok, and a shard that had not been opened when
\* the write failed never ends as written.
WriteFailureAborts ==
    \A s \in 1..NumShards :
        []((io_failures > 0 /\ SpcOf(s) = "start")
              => [](run_pc # "returned" /\ SpcOf(s) # "done"))

\* The shard each line of a content file came from
ShardOfLine(l) == [i \in DOMAIN content[l] |-> content[l][i][1]]

\* The place of a shard among those that took the writer of a language
AcquiredAt(l, s) == CHOOSE i \in DOMAIN acquired[l] : acquired[l][i] = s

\* C19 (batch contiguity): in every content file the lines of one shard are
\* one unbroken interval, whose provenance entries are consecutive too, and
\* the intervals of the shards follow one another in the order in which the
\* shards took the writer's mutex.
BatchContiguity ==
    \A l \in LANG :
        /\ \A i, j, k \in DOMAIN content[l] :
               (i < k /\ k < j /\ ShardOfLine(l)[i] = ShardOfLine(l)[j])
                   => ShardOfLine(l)[k] = ShardOfLine(l)[i]
        /\ \A i, j, k \in DOMAIN meta[l] :
               (i < k /\ k < j /\ meta[l][i].shard_id = meta[l][j].shard_id)
                   => meta[l][k].shard_id = meta[l][i].shard_id
        /\ \A i \in DOMAIN content[l] : Count(acquired[l], ShardOfLine(l)[i]) = 1
        /\ \A i, j \in DOMAIN content[l] :
               (i < j /\ ShardOfLine(l)[i] # ShardOfLine(l)[j])
                   => AcquiredAt(l, ShardOfLine(l)[i]) < AcquiredAt(l, ShardOfLine(l)[j])

\* The two pieces of the second shard's batch are in a content file before
\* the batch of the first shard, which took the mutex after it
BatchContiguityWitness ==
    \E l \in LANG :
        /\ Len(meta[l]) >= 3
        /\ meta[l][1].shard_id = 2
        /\ meta[l][2].shard_id = 2
        /\ meta[l][3].shard_id = 1
        /\ acquired[l] = <<2, 1>>

\* run has ended, by returning or by resuming the panic of a worker
RunEnded == run_pc \in {"returned", "panicked"}

\* C20 (no deadlock, termination): a mutex is held only by a write task that
\* is between lock() and the end of its closure, and a write task holds the
\* mutex of its own language only; while run has not ended some worker can
\* take a step; and run eventually ends, with no mutex held, returning Ok
\* unless a write failed.
Termination ==
    /\ [](\A l \in LANG :
              /\ lock[l] # 0 => (lock[l] \in ShardIds /\ wst[lock[l]][l] = "locked")
              /\ \A s \in ShardIds : wst[s][l] = "locked" => lock[l] = s)
    /\ [](RunEnded \/ ENABLED Next)
    /\ <>(RunEnded /\ \A l \in LANG : lock[l] = 0)
    /\ [](RunEnded => ((\A l \in LANG : lock[l] = 0)
                         /\ (run_pc = "returned" <=> io_failures = 0)))

\* run has returned after two shards took the mutex of the same language one
\* after the other, and no mutex is held
TerminationWitness ==
    /\ run_pc = "returned"
    /\ \A l \in LANG : lock[l] = 0
    /\ \E l \in LANG : Len(acquired[l]) = 2

\* C5 (end-to-end document order): when run has returned on the shard of
\* record A (English, English, French) and record B (English), the English
\* file holds the two English lines of A and the line of B, every line of A
\* before the line of B, the French file holds A's French line, and three
\* pieces were written.
EndToEndOrder ==
    run_pc = "returned" =>
        /\ Len(content["en"]) = 3
        /\ {content["en"][i] : i \in DOMAIN content["en"]}
               = {<<1, 1, 1>>, <<1, 1, 2>>, <<1, 2, 1>>}
        /\ \A i, j \in DOMAIN content["en"] :
               (content["en"][i][2] = 1 /\ content["en"][j][2] = 2) => i < j
        /\ content["fr"] = <<<<1, 1, 3>>>>
        /\ Len(meta["en"]) + Len(meta["fr"]) = 3

(***************************************************************************)
(* RebuildWriters::with_dst.                                               *)
(***************************************************************************)
\* forge_dst: the file name of a language's journal under dst
ForgeDstShared(lang) == "lang.avro"
ForgeDst(lang) == lang \o ".avro"

\* The destinations with_dst is called on: nothing there, a regular file, or
\* a directory holding any of another file and the journals of an older run
DstInputs ==
    {[kind |-> "absent", entries |-> {}], [kind |-> "file", entries |-> {}]}
        \cup {[kind |-> "dir", entries |-> e] :
                 e \in SUBSET ({"notes.txt"} \cup {ForgeDst(l) : l \in LANG})}

InitDst ==
    /\ dst0 \in DstInputs
    /\ dkind = dst0.kind
    /\ dentries = dst0.entries
    /\ dpc = "exists"
    /\ dlog = {}
    /\ dwriters = {}
    /\ dresult = "none"
    /\ dioerr = {}

\* if !dst.exists() { std::fs::create_dir(dst)?; }
D_Exists ==
    /\ dpc = "exists"
    /\ IF dkind = "absent"
       THEN \E ok \in BOOLEAN :
                IF ok
                THEN /\ dkind' = "dir" /\ dpc' = "isfile" /\ dresult' = dresult
                     /\ dioerr' = dioerr
                ELSE /\ dkind' = dkind /\ dpc' = "done" /\ dresult' = "Err"
                     /\ dioerr' = dioerr \cup {"create_dir"}
       ELSE /\ dkind' = dkind /\ dpc' = "isfile" /\ dresult' = dresult
            /\ dioerr' = dioerr
    /\ UNCHANGED <<dst0, dentries, dlog, dwriters>>
    /\ UNCHANGED notD

\* if dst.is_file() { error!(..) }: the message is logged and the call goes on
D_IsFile ==
    /\ dpc = "isfile"
    /\ dlog' = IF dkind = "file"
               THEN dlog \cup {"rebuild destination must be an empty folder!"}
               ELSE dlog
    /\ dpc' = "readdir"
    /\ UNCHANGED <<dst0, dkind, dentries, dwriters, dresult>>
    /\ UNCHANGED dioerr
    /\ UNCHANGED notD

\* if !dst.read_dir()?.next().is_none() { error!(..) }: read_dir fails on what
\* is not a directory; entries found are logged and the call goes on
D_ReadDir ==
    /\ dpc = "readdir"
    /\ IF dkind # "dir"
       THEN dpc' = "done" /\ dresult' = "Err" /\ dlog' = dlog
       ELSE /\ dpc' = "writers"
            /\ dresult' = dresult
            /\ dlog' = IF dentries # {}
                       THEN dlog \cup {"rebuild destination folder must be empty!"}
                       ELSE dlog
    /\ UNCHANGED <<dst0, dkind, dentries, dwriters>>
    /\ UNCHANGED dioerr
    /\ UNCHANGED notD

\* RebuildWriter::from_path: File::create(dst)? hands the error of the file
\* system to the caller
FromPathSwallowed(created) == "Ok"
FromPath(created) == IF created THEN "Ok" ELSE "Err"

\* new_writer_mutex for the next language of LANG.iter(): File::create makes
\* (or truncates) <dst>/<lang>.avro; its failure ends the collect with the error
D_NewWriter(lang) ==
    /\ dpc = "writers"
    /\ lang \in LANG \ dwriters
    /\ \E created \in BOOLEAN :
           /\ dentries' = IF created THEN dentries \cup {ForgeDst(lang)} ELSE dentries
           /\ dioerr' = IF created THEN dioerr ELSE dioerr \cup {ForgeDst(lang)}
           /\ IF FromPath(created) = "Ok"
              THEN /\ dwriters' = dwriters \cup {lang}
                   /\ dpc' = dpc
                   /\ dresult' = dresult
              ELSE /\ dwriters' = dwriters
                   /\ dpc' = "done"
                   /\ dresult' = "Err"
    /\ UNCHANGED <<dst0, dkind, dlog>>
    /\ UNCHANGED notD

\* Ok(RebuildWriters(ret?)) once every language has its writer
D_Return ==
    /\ dpc = "writers"
    /\ dwriters = LANG
    /\ dpc' = "done"
    /\ dresult' = "Ok"
    /\ UNCHANGED <<dst0, dkind, dentries, dlog, dwriters>>
    /\ UNCHANGED dioerr
    /\ UNCHANGED notD

NextDst ==
    \/ D_Exists
    \/ D_IsFile
    \/ D_ReadDir
    \/ \E lang \in LANG : D_NewWriter(lang)
    \/ D_Return

\* The journal files this call has made
JournalsCreated == {ForgeDst(l) : l \in dwriters}

\* C3 (destination precondition): called on a regular file or on a directory
\* that is not empty, with_dst creates no journal file and ends with an error.
DstPrecondition ==
    (dst0.kind = "file" \/ (dst0.kind = "dir" /\ dst0.entries # {})) =>
        /\ JournalsCreated = {}
        /\ dpc = "done" => dresult = "Err"

\* The destination was absent, or an empty directory, when with_dst was called
FreshDst == dst0.kind = "absent" \/ (dst0.kind = "dir" /\ dst0.entries = {})

\* C11 (writers on a fresh destination): called on an absent or empty
\* destination, with_dst logs no error and fails only when a call to the file
\* system failed; when it returns Ok the destination is a directory, every
\* language of the table has its writer, and the directory holds exactly one
\* file per language, named <code>.avro, and nothing else. No piece is needed
\* for a language to get its file.
WithDstFresh ==
    FreshDst =>
        /\ dlog = {}
        /\ dresult = "Err" => dioerr # {}
        /\ (dpc = "done" /\ dioerr = {}) => dresult = "Ok"
        /\ dresult = "Ok" =>
               /\ dkind = "dir"
               /\ dwriters = LANG
               /\ dentries = {l \o ".avro" : l \in LANG}
               /\ Cardinality(dentries) = Cardinality(LANG)

\* with_dst has returned Ok on a destination that did not exist
WithDstFreshWitness ==
    /\ dst0.kind = "absent"
    /\ dpc = "done"
    /\ dresult = "Ok"
    /\ dkind = "dir"

\* C16 (journal creation failure is fatal): once File::create has failed for a
\* language, with_dst makes no further writer and ends with an error; it
\* returns Ok only with a writer for every language, each over a file it
\* created, so no RebuildWriters value holds a partial writer set.
CreateFailureFatal ==
    /\ (\E l \in LANG : l \o ".avro" \in dioerr) =>
           /\ dpc = "done"
           /\ dresult = "Err"
           /\ dwriters # LANG
    /\ dresult = "Ok" => (dwriters = LANG /\ dioerr = {})
    /\ \A l \in dwriters : l \o ".avro" \in dentries \ dioerr

\* The journal of a language was created and the one of the other was not:
\* with_dst has ended with the error
CreateFailureWitness ==
    /\ dpc = "done"
    /\ dresult = "Err"
    /\ dwriters # {}
    /\ \E l \in LANG \ dwriters : l \o ".avro" \in dioerr

(***************************************************************************)
(* The merge of one document.                                              *)
(***************************************************************************)
\* The pairs of a record: its sentences by their line, each with a language
MergeInputs ==
    {[i \in DOMAIN ls |-> <<i, ls[i]>>] : ls \in SeqsUpTo(LANG, MaxSentences)}

InitMerge ==
    /\ minput \in MergeInputs
    /\ mdoc = NoDoc
    /\ mpos = 0
    /\ mpieces = << >>
    /\ mpc = "new"

\* The record is split into sentences and languages and made a Document
M_Document ==
    /\ mpc = "new"
    /\ mdoc' = DocumentNew(1, DocSentences(minput), DocLangs(minput))
    /\ mpc' = "merge"
    /\ UNCHANGED <<minput, mpos, mpieces>>
    /\ UNCHANGED notM

\* into_merged_pieces_lang takes the next sentence
M_Merge ==
    /\ mpc = "merge"
    /\ mpos < Len(mdoc.sentences)
    /\ mpieces' = MergeOne(mdoc, mpos + 1, mpieces)
    /\ mpos' = mpos + 1
    /\ UNCHANGED <<minput, mdoc, mpc>>
    /\ UNCHANGED notM

M_Done ==
    /\ mpc = "merge"
    /\ mpos = Len(mdoc.sentences)
    /\ mpc' = "done"
    /\ UNCHANGED <<minput, mdoc, mpos, mpieces>>
    /\ UNCHANGED notM

NextMerge == M_Document \/ M_Merge \/ M_Done

\* The pairs a sequence of pieces stands for, in order
RECURSIVE PairsOf(_)
PairsOf(pieces) ==
    IF pieces = << >> THEN << >>
    ELSE LET p == Head(pieces)
         IN  [i \in DOMAIN p.lines |-> <<p.lines[i], p.lang>>] \o PairsOf(Tail(pieces))

\* The lines of the pieces before piece k
RECURSIVE LinesBefore(_, _)
LinesBefore(pieces, k) ==
    IF k <= 1 THEN 0 ELSE Len(pieces[k - 1].lines) + LinesBefore(pieces, k - 1)

\* C9 (merge correctness): the pieces of a document, put end to end, are its
\* pairs; no piece is empty; two pieces in a row differ in language; a piece's
\* offsets are the places of its first and last line in the document; the
\* pairs [a:en, b:en, c:fr, d:en] give {en:[a,b]} 0-1, {fr:[c]} 2, {en:[d]} 3;
\* languages that alternate give one piece a sentence.
MergeCorrect ==
    mpc = "done" =>
        /\ PairsOf(mpieces) = minput
        /\ mpieces = IntoMergedPiecesLang(mdoc)
        /\ \A k \in DOMAIN mpieces :
               /\ mpieces[k].lines # << >>
               /\ k > 1 => mpieces[k].lang # mpieces[k - 1].lang
               /\ mpieces[k].first = LinesBefore(mpieces, k)
               /\ mpieces[k].last = mpieces[k].first + Len(mpieces[k].lines) - 1
        /\ minput = <<<<1, "en">>, <<2, "en">>, <<3, "fr">>, <<4, "en">>>> =>
               mpieces = <<MkPiece("en", <<1, 2>>, 1, 0, 1),
                           MkPiece("fr", <<3>>, 1, 2, 2),
                           MkPiece("en", <<4>>, 1, 3, 3)>>
        /\ (\A i \in DOMAIN minput : i > 1 => minput[i][2] # minput[i - 1][2]) =>
               Len(mpieces) = Len(minput)

\* The merge of [a:en, b:en, c:fr, d:en] has ended
MergeCorrectWitness ==
    /\ mpc = "done"
    /\ minput = <<<<1, "en">>, <<2, "en">>, <<3, "fr">>, <<4, "en">>>>
    /\ Len(mpieces) = 3

(***************************************************************************)
(* RebuildWriter: append_ser, flush, and the journal read back.            *)
(***************************************************************************)
\* RebuildWriter::new(&SCHEMA, buf): Writer::with_codec(schema, writer, Codec::Snappy)
InitSer ==
    /\ sval \in ShardResultInputs
    /\ sunder = << >>
    /\ sbuffer = << >>
    /\ snum = 0
    /\ shdr = FALSE
    /\ sres = "none"
    /\ sread = [ok |-> FALSE, values |-> << >>]
    /\ serpc = "new"

\* The sync marker of the file
Marker == "sync"

\* Codec::Snappy: the block's data with the checksum of what was compressed
Checksum(ts) == Len(ts)
Compress(ts) == [codec |-> "snappy", data |-> ts, crc |-> Checksum(ts)]
Decompress(c) ==
    IF c.codec = "snappy" /\ c.crc = Checksum(c.data)
    THEN [ok |-> TRUE, data |-> c.data]
    ELSE [ok |-> FALSE, data |-> << >>]

\* append_ser: the header goes out before the first value; the value is
\* serialized, validated against the schema and encoded into the buffer
S_AppendSer ==
    /\ serpc = "new"
    /\ sunder' = IF shdr THEN sunder
                 ELSE Append(sunder, [k |-> "header", codec |-> "snappy", marker |-> Marker])
    /\ shdr' = TRUE
    /\ LET v == ToValue(sval, ShardResultTy)
       IN  IF Validate(v, SCHEMA)
           THEN /\ sbuffer' = sbuffer \o Encode(v, SCHEMA)
                /\ snum' = snum + 1
                /\ sres' = "Ok"
           ELSE /\ sbuffer' = sbuffer
                /\ snum' = snum
                /\ sres' = "Err"
    /\ serpc' = "appended"
    /\ UNCHANGED <<sval, sread>>
    /\ UNCHANGED notS

\* flush: nothing when no value is buffered, else one block: the count of
\* values, the compressed buffer, the marker
S_Flush ==
    /\ serpc = "appended"
    /\ IF snum = 0
       THEN UNCHANGED <<sunder, sbuffer, snum>>
       ELSE /\ sunder' = Append(sunder, [k |-> "block", count |-> ZigZag(snum),
                                         data |-> Compress(sbuffer), marker |-> Marker])
            /\ sbuffer' = << >>
            /\ snum' = 0
    /\ serpc' = "flushed"
    /\ UNCHANGED <<sval, shdr, sres, sread>>
    /\ UNCHANGED notS

\* The values of one block
RECURSIVE ReadValues(_, _)
ReadValues(ts, n) ==
    IF n = 0 THEN << >>
    ELSE LET r == Decode(ts, SCHEMA)
         IN  <<FromValue(r.val, ShardResultTy)>> \o ReadValues(r.rest, n - 1)

\* The values of the blocks after the header
RECURSIVE ReadBlocks(_, _)
ReadBlocks(blocks, marker) ==
    IF blocks = << >> THEN << >>
    ELSE LET b == Head(blocks)
             d == Decompress(b.data)
         IN  IF b.marker = marker /\ d.ok
             THEN ReadValues(d.data, UnZigZag(b.count)) \o ReadBlocks(Tail(blocks), marker)
             ELSE << >>

\* Reader::with_schema(&SCHEMA, &buf[..]) and the collect of its values
S_Read ==
    /\ serpc = "flushed"
    /\ sread' = IF sunder = << >> \/ Head(sunder).k # "header"
                THEN [ok |-> FALSE, values |-> << >>]
                ELSE [ok |-> TRUE, values |-> ReadBlocks(Tail(sunder), Head(sunder).marker)]
    /\ serpc' = "read"
    /\ UNCHANGED <<sval, sunder, sbuffer, snum, shdr, sres>>
    /\ UNCHANGED notS

NextSer == S_AppendSer \/ S_Flush \/ S_Read

\* C10 (journal round trip): once a ShardResult has been appended with
\* append_ser, flushed and the journal read back, the append had succeeded
\* and the reader has given exactly one value, equal to the original.
RoundTrip ==
    serpc = "read" =>
        /\ sres = "Ok"
        /\ sread.ok
        /\ Len(sread.values) = 1
        /\ sread.values[1] = sval

\* A ShardResult with an entry whose annotation is None and whose sentence
\* identifications hold a None has been read back
RoundTripWitness ==
    /\ serpc = "read"
    /\ sval.shard_id = -1
    /\ Len(sval.rebuild_info) = 1
    /\ sval.rebuild_info[1].metadata.annotation = NoneOpt
    /\ Len(sval.rebuild_info[1].metadata.sentence_identifications) = 2
    /\ Len(sread.values) = 1

\* An empty ShardResult (test_ser_empty) has been read back
RoundTripEmptyReached ==
    serpc = "read" /\ sval.rebuild_info = << >> /\ Len(sread.values) = 1

NextRecord ==
    \/ PR_Decode
    \/ \E w \in 1..SentWorkers : PR_Pull(w)
    \/ \E w \in 1..SentWorkers : PR_Identify(w)
    \/ PR_Collect

InitRec == InitRecord /\ PIdle /\ DIdle /\ MIdle /\ SIdle /\ BIdle

SpecRecord == InitRec /\ [][NextRecord]_vars

\* The step-by-step workers return exactly the values ProcessRecordOutcomes lists
OutcomesAgree == rpc = "done" => rresult \in ProcessRecordOutcomes(rbody)

(***************************************************************************)
(* Properties of process_record.                                           *)
(***************************************************************************)
\* C4 (order restoration): when process_record has returned a list, its
\* sentences are in the order of their lines in the body.
OrderRestored ==
    (rpc = "done" /\ rresult # None) =>
        \A i, j \in DOMAIN rresult : i < j => rresult[i][1] < rresult[j][1]

\* The line of the body a returned pair stands for
LineOf(pair) == rbody.lines[pair[1]]

PairAllowed(pair) ==
    /\ LineOf(pair).chars > MinChars
    /\ Predict(LineOf(pair)) \in LANG
    /\ pair[2] = Predict(LineOf(pair))

\* C6 (filtering): no pair a worker holds, and no pair of the returned list,
\* stands for a line of 100 characters or fewer or for a line whose predicted
\* label is not in the supported-language table.
Filtering ==
    /\ \A w \in 1..SentWorkers : \A i \in DOMAIN rlocal[w] : PairAllowed(rlocal[w][i])
    /\ (rpc = "done" /\ rresult # None) =>
           \A i \in DOMAIN rresult : PairAllowed(rresult[i])

\* process_record returned a pair for a body that also holds a line of 100
\* characters and a line of an unknown label
FilteringWitness ==
    /\ rpc = "done"
    /\ rresult # None
    /\ rresult # << >>
    /\ \E i, j \in DOMAIN rbody.lines :
           /\ rbody.lines[i].chars = MinChars
           /\ rbody.lines[j].chars > MinChars
           /\ Predict(rbody.lines[j]) = "xx"

\* The lines of the body process_record has to return: more than 100
\* characters, and a label of the table
Expected(lines) ==
    {i \in DOMAIN lines : LongEnough(lines[i]) /\ Predict(lines[i]) \in LANG}

\* The places of a list of pairs that stand for a line
PlacesOf(pairs, i) == {k \in DOMAIN pairs : pairs[k][1] = i}

\* C21 (no loss, no duplication): whatever the workers' schedule, a line is
\* never held by two workers nor kept twice, and when process_record returns
\* for a body that is valid UTF-8, every line of more than 100 characters
\* whose label is in the table is in the list exactly once, with its
\* language, and the list holds nothing else.
NoLossNoDuplication ==
    /\ \A i \in DOMAIN rbody.lines :
           Cardinality({w \in 1..SentWorkers : rheld[w] # NoLine /\ rheld[w].text = i})
             + Cardinality(UNION {{<<w, k>> : k \in PlacesOf(rlocal[w], i)} :
                                     w \in 1..SentWorkers}) <= 1
    /\ (rpc = "done" /\ rbody.utf8) =>
           /\ rresult # None
           /\ Len(rresult) = Cardinality(Expected(rbody.lines))
           /\ \A i \in Expected(rbody.lines) :
                  /\ Cardinality(PlacesOf(rresult, i)) = 1
                  /\ \A k \in PlacesOf(rresult, i) :
                         rresult[k] = <<i, Predict(rbody.lines[i])>>

\* process_record has returned the pairs of an English and a French line
\* that two different workers classified, the later line first
NoLossWitness ==
    /\ rpc = "done"
    /\ rresult # None
    /\ Len(rresult) = 2
    /\ \E i, j \in DOMAIN rbody.lines :
           /\ i < j
           /\ rresult = <<<<j, "fr">>, <<i, "en">>>>
    /\ \A w \in 1..SentWorkers : Len(rlocal[w]) <= 1

\* C17 (a classifier that fails): identify_sentence gives None for a line
\* whose prediction is an error exactly as for a line without prediction; no
\* pair a worker holds or process_record returns stands for such a line; and
\* the returned list still holds a pair for every other line of more than 100
\* characters whose label is in the table.
ClassifierFailureDropped ==
    /\ \A i \in DOMAIN rbody.lines :
           Predict(rbody.lines[i]) \in {"err", "none"} =>
               /\ IdentifySentence(rbody.lines[i]) = None
               /\ \A w \in 1..SentWorkers : \A k \in DOMAIN rlocal[w] :
                      rlocal[w][k][1] # i
    /\ (rpc = "done" /\ rresult # None) =>
           \A i \in DOMAIN rbody.lines :
               IF Predict(rbody.lines[i]) \in {"err", "none"}
               THEN \A k \in DOMAIN rresult : rresult[k][1] # i
               ELSE (LongEnough(rbody.lines[i]) /\ Predict(rbody.lines[i]) \in LANG) =>
                        \E k \in DOMAIN rresult :
                            rresult[k] = <<i, Predict(rbody.lines[i])>>

\* process_record has returned the pairs of the first and the last line of a
\* body whose line in between the classifier failed on
ClassifierFailureWitness ==
    /\ rpc = "done"
    /\ rresult # None
    /\ Len(rbody.lines) = 3
    /\ Predict(rbody.lines[2]) = "err"
    /\ \E j, k \in DOMAIN rresult : rresult[j][1] = 1 /\ rresult[k][1] = 3

(***************************************************************************)
(* RebuildInformation and ShardResult built from their parts.              *)
(***************************************************************************)
InitBuild ==
    /\ bshard \in {-1, 0, 1}
    /\ blocs \in SeqsUpTo(BuildLocations, MaxPairs)
    /\ bmetas \in SeqsUpTo(BuildMetadata, MaxPairs)
    /\ binfo = NoInfo
    /\ bparts = IntoRawParts(NoInfo)
    /\ bsr = NoShardResult
    /\ bpc = "start"

\* RebuildInformation::new on the first location and the first metadata
B_RebuildInformationNew ==
    /\ bpc = "start"
    /\ blocs # << >>
    /\ bmetas # << >>
    /\ binfo' = RebuildInformationNew(Head(blocs), Head(bmetas))
    /\ bpc' = "info"
    /\ UNCHANGED <<bshard, blocs, bmetas, bparts, bsr>>
    /\ UNCHANGED notB

\* into_raw_parts on the value just made
B_IntoRawParts ==
    /\ bpc = "info"
    /\ bparts' = IntoRawParts(binfo)
    /\ bpc' = "parts"
    /\ UNCHANGED <<bshard, blocs, bmetas, binfo, bsr>>
    /\ UNCHANGED notB

\* ShardResult::new on the two lists
B_ShardResultNew ==
    /\ bpc = "start"
    /\ bsr' = ShardResultNew(bshard, blocs, bmetas)
    /\ bpc' = "result"
    /\ UNCHANGED <<bshard, blocs, bmetas, binfo, bparts>>
    /\ UNCHANGED notB

NextBuild ==
    \/ B_RebuildInformationNew
    \/ B_IntoRawParts
    \/ B_ShardResultNew

InitB == InitBuild /\ RIdle /\ PIdle /\ DIdle /\ MIdle /\ SIdle

SpecBuild == InitB /\ [][NextBuild]_vars

\* C18 (location and metadata round trip): into_raw_parts of the value
\* RebuildInformation::new made of a location l and a metadata m is the pair
\* (l, m), and the accessors shard_id, record_id, line_start, line_end and
\* loc_in_shard of that value give the fields of l (and metadata gives m).
RawPartsRoundTrip ==
    /\ bpc \in {"info", "parts"} =>
           /\ ShardId(binfo) = Head(blocs).shard_id
           /\ RecordId(binfo) = Head(blocs).record_id
           /\ LineStart(binfo) = Head(blocs).line_start
           /\ LineEnd(binfo) = Head(blocs).line_end
           /\ LocInShard(binfo) = Head(blocs).loc_in_shard
           /\ MetadataOf(binfo) = Head(bmetas)
    /\ bpc = "parts" => bparts = <<Head(blocs), Head(bmetas)>>

\* The shorter of two lengths
MinLen(a, b) == IF Len(a) <= Len(b) THEN Len(a) ELSE Len(b)

\* C22 (positional pairing): ShardResult::new returns a value for any two
\* lists; it keeps the shard id, its rebuild_info has as many entries as the
\* shorter list, and the i-th entry is RebuildInformation::new of the i-th
\* location and the i-th metadata; what the longer list holds beyond that is
\* in no entry.
PositionalPairing ==
    /\ bpc = "start" => ENABLED B_ShardResultNew
    /\ bpc = "result" =>
           /\ bsr.shard_id = bshard
           /\ Len(bsr.rebuild_info) = MinLen(blocs, bmetas)
           /\ \A i \in DOMAIN bsr.rebuild_info :
                  /\ IntoRawParts(bsr.rebuild_info[i]) = <<blocs[i], bmetas[i]>>
                  /\ bsr.rebuild_info[i] = RebuildInformationNew(blocs[i], bmetas[i])

\* ShardResult::new has made one entry of two different locations and one
\* metadata: the second location is dropped
PositionalPairingWitness ==
    /\ bpc = "result"
    /\ Len(blocs) = 2
    /\ blocs[1] # blocs[2]
    /\ Len(bmetas) = 1
    /\ Len(bsr.rebuild_info) = 1
    /\ ShardId(bsr.rebuild_info[1]) = blocs[1].shard_id

\* into_raw_parts has given back a location whose five fields all differ and
\* a metadata with an annotation
RawPartsWitness ==
    /\ bpc = "parts"
    /\ bparts[1] = LocationNew(1, "r1", 2, 3, 4)
    /\ bparts[2].annotation # NoneOpt

InitD == InitDst /\ RIdle /\ PIdle /\ MIdle /\ SIdle /\ BIdle

SpecDst == InitD /\ [][NextDst]_vars

InitM == InitMerge /\ RIdle /\ PIdle /\ DIdle /\ SIdle /\ BIdle

SpecMerge == InitM /\ [][NextMerge]_vars

InitS == InitSer /\ RIdle /\ PIdle /\ DIdle /\ MIdle /\ BIdle

SpecSer == InitS /\ [][NextSer]_vars

====
